---- MODULE Spec2Model ----
(***************************************************************************)
(* Model of planet_simulation.py: an N-body gravitational integrator with  *)
(* a bounded trail of projected screen points per body, a zoom flag and a  *)
(* Running/Paused state.                                                   *)
(*                                                                         *)
(* Python floats are modelled by a small binary floating-point format: a  *)
(* value is an integer number of units of 2^-FracBits, and every           *)
(* arithmetic operation rounds its exact result to the nearest value with  *)
(* at most SigBits significant bits (ties to even), as IEEE-754 does with  *)
(* 53 bits.                                                                *)
(***************************************************************************)
EXTENDS Integers, Sequences, FiniteSets, TLC

VARIABLES config, catalog, bodies, zoomed, state, error, last, ticks,
          moves, pushes, pc, batch, handled, running, screen

vars == <<config, catalog, bodies, zoomed, state, error, last, ticks,
          moves, pushes, pc, batch, handled, running, screen>>

\* the variables of the main loop (run)
loop == <<pc, batch, handled, running, screen>>

(***************************************************************************)
(* Bounds of the model                                                     *)
(***************************************************************************)
FracBits == 2
SigBits == 5
MaxTrail == 2
MaxTicks == 5
MaxBatch == 2

(***************************************************************************)
(* Floating-point arithmetic                                               *)
(***************************************************************************)
RECURSIVE Pow2(_)
Pow2(k) == IF k <= 0 THEN 1 ELSE 2 * Pow2(k - 1)

RECURSIVE BitLen(_)
BitLen(q) == IF q <= 0 THEN 0 ELSE 1 + BitLen(q \div 2)

One == Pow2(FracBits)

Abs(a) == IF a < 0 THEN -a ELSE a

Sgn(a) == IF a < 0 THEN -1 ELSE IF a > 0 THEN 1 ELSE 0

Max(a, b) == IF a >= b THEN a ELSE b

\* q + r/d rounded to the nearest integer, ties to even
RoundNearest(q, r, d) ==
    IF 2 * r > d \/ (2 * r = d /\ q % 2 = 1) THEN q + 1 ELSE q

\* num/den rounded to the nearest multiple of u
RoundUlp(num, den, u) ==
    Sgn(num) * u * RoundNearest(Abs(num) \div (den * u),
                                Abs(num) % (den * u), den * u)

\* num/den (den > 0), rounded to the nearest representable value, ties to
\* even: the unit u leaves SigBits bits to the quotient
RoundRat(num, den) ==
    RoundUlp(num, den, Pow2(Max(0, BitLen(Abs(num) \div den) - SigBits)))

\* conversion of a Python int to float
IntToFloat(k) == RoundRat(k * One, 1)

FAdd(a, b) == RoundRat(a + b, 1)

FSub(a, b) == RoundRat(a - b, 1)

FMul(a, b) == RoundRat(a * b, One)

\* b # 0: Python raises ZeroDivisionError otherwise, see the callers
FDiv(a, b) == RoundRat(Sgn(b) * a * One, Abs(b))

\* s or s + 1, whichever is the integer square root of n
IsqrtStep(n, s) == IF (s + 1) * (s + 1) <= n THEN s + 1 ELSE s

\* the largest r with r * r <= n
RECURSIVE Isqrt(_)
Isqrt(n) == IF n < 2 THEN n ELSE IsqrtStep(n, 2 * Isqrt(n \div 4))

\* the multiple of u nearest to the square root of n, where lo * u is the
\* largest multiple of u not above it
SqrtNearest(n, lo, u) ==
    u * (IF \/ 4 * n > ((2 * lo + 1) * u) * ((2 * lo + 1) * u)
            \/ (4 * n = ((2 * lo + 1) * u) * ((2 * lo + 1) * u) /\ lo % 2 = 1)
         THEN lo + 1 ELSE lo)

SqrtUlp(n, r0, u) == SqrtNearest(n, r0 \div u, u)

SqrtFloor(n, r0) == SqrtUlp(n, r0, Pow2(Max(0, BitLen(r0) - SigBits)))

\* math.sqrt, correctly rounded; a >= 0
FSqrt(a) == SqrtFloor(a * One, Isqrt(a * One))

\* int(): truncation toward zero, the result is a Python int
FloatToInt(a) == Sgn(a) * (Abs(a) \div One)

(***************************************************************************)
(* SimulationState, SimulationConfig and the catalog                       *)
(***************************************************************************)
RUNNING == "running"

PAUSED == "paused"

SimulationConfig(trail_length) ==
    [WIDTH |-> 9, HEIGHT |-> 6, G |-> (3 * One) \div 4, SCALE |-> One \div 2,
     ZOOM_SCALE |-> One + One \div 2, DT |-> One \div 2,
     TRAIL_LENGTH |-> trail_length]

Configs == {SimulationConfig(t) : t \in 0..MaxTrail}

Planet(distance, velocity, mass, radius, color, name) ==
    [distance |-> distance, velocity |-> velocity, mass |-> mass,
     radius |-> radius, color |-> color, name |-> name]

\* planet_data: the Sun at the origin and planets on the x axis
planet_data ==
    << Planet(0, 0, (15 * One) \div 2, 8, "yellow", "Sun"),
       Planet(2 * One, 2 * One, 3 * One, 2, "grey", "Mercury"),
       Planet(4 * One, One + One \div 2, One \div 2, 3, "orange", "Venus") >>

Catalogs == {planet_data}

\* supplied catalogs: the Sun and two planets of any distance (also equal
\* ones, and 0), velocity and mass
CatalogsAny ==
    { << Planet(0, 0, (15 * One) \div 2, 8, "yellow", "Sun"),
         Planet(d1, v1, m1, 2, "grey", "Mercury"),
         Planet(d2, v2, m2, 3, "orange", "Venus") >> :
        d1 \in {0, 2 * One}, d2 \in {0, 2 * One},
        v1 \in {0, 2 * One}, v2 \in {0, 2 * One},
        m1 \in {One, 3 * One}, m2 \in {One, 3 * One} }

\* configurations and catalogs with non-positive G, DT, SCALE and mass
ConfigsUnchecked ==
    { SimulationConfig(1),
      [SimulationConfig(1) EXCEPT !.G = 0],
      [SimulationConfig(1) EXCEPT !.DT = 0],
      [SimulationConfig(1) EXCEPT !.SCALE = 0 - One] }

CatalogsUnchecked ==
    { planet_data, [planet_data EXCEPT ![2].mass = 0] }

(***************************************************************************)
(* CelestialBody                                                           *)
(***************************************************************************)
CelestialBody(x, y, vx, vy, mass, radius, color, name) ==
    [x |-> x, y |-> y, vx |-> vx, vy |-> vy, mass |-> mass,
     radius |-> radius, color |-> color, name |-> name,
     trail |-> <<>>, force_x |-> 0, force_y |-> 0]

\* reset_forces that resets nothing
reset_forces_keep(self) == self

reset_forces(self) == [self EXCEPT !.force_x = 0, !.force_y = 0]

\* add_gravitational_force without the test of distance_squared
add_gravitational_force_no_test(self, other, G) ==
    LET dx == FSub(other.x, self.x)
        dy == FSub(other.y, self.y)
        distance_squared == FAdd(FMul(dx, dx), FMul(dy, dy))
        distance == FSqrt(distance_squared)
    IN  IF distance_squared = 0 \/ distance = 0
        THEN [raised |-> TRUE, applied |-> FALSE, fx |-> 0, fy |-> 0,
              body |-> self]
        ELSE LET force_magnitude ==
                     FDiv(FMul(FMul(G, self.mass), other.mass),
                          distance_squared)
                 force_x == FDiv(FMul(force_magnitude, dx), distance)
                 force_y == FDiv(FMul(force_magnitude, dy), distance)
             IN  [raised |-> FALSE, applied |-> TRUE,
                  fx |-> force_x, fy |-> force_y,
                  body |-> [self EXCEPT
                               !.force_x = FAdd(self.force_x, force_x),
                               !.force_y = FAdd(self.force_y, force_y)]]

\* The result of add_gravitational_force carries the body after the call,
\* whether the call raised ZeroDivisionError, and the contribution that
\* was added (if any).
ForceSkipped(self) ==
    [raised |-> FALSE, applied |-> FALSE, fx |-> 0, fy |-> 0, body |-> self]

ForceRaised(self) ==
    [raised |-> TRUE, applied |-> FALSE, fx |-> 0, fy |-> 0, body |-> self]

\* self.force_x += force_x; self.force_y += force_y
ForceAdded(self, force_x, force_y) ==
    [raised |-> FALSE, applied |-> TRUE, fx |-> force_x, fy |-> force_y,
     body |-> [self EXCEPT !.force_x = FAdd(self.force_x, force_x),
                           !.force_y = FAdd(self.force_y, force_y)]]

\* force_x = force_magnitude * dx / distance, and force_y alike
ForceComponents(self, dx, dy, distance, force_magnitude) ==
    IF distance = 0 THEN ForceRaised(self)
    ELSE ForceAdded(self, FDiv(FMul(force_magnitude, dx), distance),
                          FDiv(FMul(force_magnitude, dy), distance))

\* a force that falls with the distance instead of its square
ForceAtDistance_linear(self, other, G, dx, dy, distance_squared) ==
    IF distance_squared > 0
    THEN ForceComponents(self, dx, dy, FSqrt(distance_squared),
                         FDiv(FMul(FMul(G, self.mass), other.mass),
                              FSqrt(distance_squared)))
    ELSE ForceSkipped(self)

\* if distance_squared > 0: distance = math.sqrt(distance_squared) and
\* force_magnitude = G * self.mass * other.mass / distance_squared
ForceAtDistance(self, other, G, dx, dy, distance_squared) ==
    IF distance_squared > 0
    THEN ForceComponents(self, dx, dy, FSqrt(distance_squared),
                         FDiv(FMul(FMul(G, self.mass), other.mass),
                              distance_squared))
    ELSE ForceSkipped(self)

\* distance_squared = dx * dx + dy * dy
ForceAlong(self, other, G, dx, dy) ==
    ForceAtDistance(self, other, G, dx, dy, FAdd(FMul(dx, dx), FMul(dy, dy)))

\* dx = other.x - self.x; dy = other.y - self.y
add_gravitational_force(self, other, G) ==
    ForceAlong(self, other, G, FSub(other.x, self.x), FSub(other.y, self.y))

\* self.x += self.vx * dt; self.y += self.vy * dt, with the new velocity
Displaced(self, dt, vx, vy) ==
    [self EXCEPT !.vx = vx, !.vy = vy,
                 !.x = FAdd(self.x, FMul(vx, dt)),
                 !.y = FAdd(self.y, FMul(vy, dt))]

\* update_position that moves by the velocity before its update
update_position_explicit(self, dt) ==
    [self EXCEPT !.vx = FAdd(self.vx, FMul(FDiv(self.force_x, self.mass), dt)),
                 !.vy = FAdd(self.vy, FMul(FDiv(self.force_y, self.mass), dt)),
                 !.x = FAdd(self.x, FMul(self.vx, dt)),
                 !.y = FAdd(self.y, FMul(self.vy, dt))]

\* self.mass # 0; the caller models the ZeroDivisionError of mass = 0
update_position(self, dt) ==
    LET ax == FDiv(self.force_x, self.mass)
        ay == FDiv(self.force_y, self.mass)
    IN  Displaced(self, dt, FAdd(self.vx, FMul(ax, dt)),
                            FAdd(self.vy, FMul(ay, dt)))

\* the screen point computed as round(position * scale) + dimension // 2
ScreenPoint_rounded(self, cfg, zoom) ==
    LET current_scale == IF zoom THEN cfg.ZOOM_SCALE ELSE cfg.SCALE
        rx == FMul(self.x, current_scale)
        ry == FMul(self.y, current_scale)
    IN  << Sgn(rx) * RoundNearest(Abs(rx) \div One, Abs(rx) % One, One)
               + cfg.WIDTH \div 2,
           Sgn(ry) * RoundNearest(Abs(ry) \div One, Abs(ry) % One, One)
               + cfg.HEIGHT \div 2 >>

\* the screen point of a body under the scale selected by zoomed
ScreenPoint(self, cfg, zoom) ==
    LET current_scale == IF zoom THEN cfg.ZOOM_SCALE ELSE cfg.SCALE
        screen_x == FloatToInt(FAdd(FMul(self.x, current_scale),
                                    IntToFloat(cfg.WIDTH \div 2)))
        screen_y == FloatToInt(FAdd(FMul(self.y, current_scale),
                                    IntToFloat(cfg.HEIGHT \div 2)))
    IN  <<screen_x, screen_y>>

\* update_trail without the pop(0): the trail is never trimmed
update_trail_unbounded(self, cfg, zoom) ==
    [self EXCEPT !.trail = Append(self.trail, ScreenPoint(self, cfg, zoom))]

\* update_trail with pop() in place of pop(0): the newest point is dropped
update_trail_pop_last(self, cfg, zoom) ==
    LET appended == Append(self.trail, ScreenPoint(self, cfg, zoom))
    IN  [self EXCEPT !.trail = IF Len(appended) > cfg.TRAIL_LENGTH
                                THEN SubSeq(appended, 1, Len(appended) - 1)
                                ELSE appended]

\* if len(self.trail) > config.TRAIL_LENGTH: self.trail.pop(0)
Trimmed(self, cfg, appended) ==
    [self EXCEPT !.trail = IF Len(appended) > cfg.TRAIL_LENGTH
                            THEN Tail(appended)
                            ELSE appended]

update_trail(self, cfg, zoom) ==
    Trimmed(self, cfg, Append(self.trail, ScreenPoint(self, cfg, zoom)))

\* clear_trail that rebinds nothing: the trail is kept
clear_trail_keep(self) == self

clear_trail(self) == [self EXCEPT !.trail = <<>>]

(***************************************************************************)
(* PlanetSimulation                                                        *)
(***************************************************************************)
\* last: the last operation, the program state it started from and the
\* add_gravitational_force calls it made; ticks: the running ticks since
\* construction or the last reset (the model follows MaxTicks of them)
Snapshot == [bodies |-> bodies, zoomed |-> zoomed, state |-> state]

RECURSIVE CreateFrom(_, _, _)
CreateFrom(bs, data, k) ==
    IF k > Len(data) THEN bs
    ELSE CreateFrom(Append(bs, CelestialBody(data[k].distance, 0, 0,
                                             data[k].velocity, data[k].mass,
                                             data[k].radius, data[k].color,
                                             data[k].name)),
                    data, k + 1)

\* appends one body per catalog row to the list bs
_create_solar_system(bs) == CreateFrom(bs, catalog, 1)

\* the nested loops with the inner one starting at i instead of i + 1
RECURSIVE PairSeq_from_self(_, _, _)
PairSeq_from_self(n, i, j) ==
    IF i > n THEN <<>>
    ELSE IF j > n THEN PairSeq_from_self(n, i + 1, i + 1)
    ELSE <<(<<i, j>>)>> \o PairSeq_from_self(n, i, j + 1)

\* the pairs (i, j), i < j, in the order of the nested loops
RECURSIVE PairSeq(_, _, _)
PairSeq(n, i, j) ==
    IF i > n THEN <<>>
    ELSE IF j > n THEN PairSeq(n, i + 1, i + 2)
    ELSE <<(<<i, j>>)>> \o PairSeq(n, i, j + 1)

\* the record of one add_gravitational_force call kept in last.calls
CallRecord(i, j, r) ==
    [self |-> i, other |-> j, applied |-> r.applied, fx |-> r.fx, fy |-> r.fy]

\* the force loop over pairs[k..]: two calls per pair, each on the bodies
\* as the calls before it left them; stops at the first call that raises
RECURSIVE ForceLoop(_, _, _, _, _)
\* body2.add_gravitational_force(body1, G), r2 is its result
SecondCall(bs1, pairs, k, G, calls, r2) ==
    IF r2.raised
    THEN [bodies |-> bs1, raised |-> TRUE, calls |-> calls]
    ELSE ForceLoop([bs1 EXCEPT ![pairs[k][2]] = r2.body], pairs, k + 1, G,
                   Append(calls, CallRecord(pairs[k][2], pairs[k][1], r2)))

\* body1.add_gravitational_force(body2, G), r1 is its result
FirstCall(bs, pairs, k, G, calls, r1) ==
    IF r1.raised
    THEN [bodies |-> bs, raised |-> TRUE, calls |-> calls]
    ELSE SecondCall([bs EXCEPT ![pairs[k][1]] = r1.body], pairs, k, G,
                    Append(calls, CallRecord(pairs[k][1], pairs[k][2], r1)),
                    add_gravitational_force(bs[pairs[k][2]], r1.body, G))

ForceLoop(bs, pairs, k, G, calls) ==
    IF k > Len(pairs) THEN [bodies |-> bs, raised |-> FALSE, calls |-> calls]
    ELSE FirstCall(bs, pairs, k, G, calls,
                   add_gravitational_force(bs[pairs[k][1]], bs[pairs[k][2]],
                                           G))

\* the position and trail loop with update_trail before update_position
RECURSIVE MoveLoop_trail_first(_, _, _, _)
MoveLoop_trail_first(bs, k, cfg, zoom) ==
    IF k > Len(bs) THEN [bodies |-> bs, raised |-> FALSE]
    ELSE IF bs[k].mass = 0 THEN [bodies |-> bs, raised |-> TRUE]
    ELSE MoveLoop_trail_first(
             [bs EXCEPT ![k] = update_position(update_trail(@, cfg, zoom),
                                               cfg.DT)],
             k + 1, cfg, zoom)

\* the position and trail loop over bs[k..]; a body of mass 0 raises
\* ZeroDivisionError in update_position and ends the loop there
RECURSIVE MoveLoop(_, _, _, _)
MoveLoop(bs, k, cfg, zoom) ==
    IF k > Len(bs) THEN [bodies |-> bs, raised |-> FALSE]
    ELSE IF bs[k].mass = 0 THEN [bodies |-> bs, raised |-> TRUE]
    ELSE MoveLoop([bs EXCEPT ![k] = update_trail(update_position(@, cfg.DT),
                                                 cfg, zoom)],
                  k + 1, cfg, zoom)

\* the position and trail loop, after a force loop that did not raise
AfterForces(forced, moved) ==
    IF forced.raised THEN forced
    ELSE [bodies |-> moved.bodies, raised |-> moved.raised,
          calls |-> forced.calls]

ForcesThenMoves(forced, cfg, zoom) ==
    AfterForces(forced, MoveLoop(forced.bodies, 1, cfg, zoom))

\* update_physics that moves the bodies before it accumulates the forces
PhysicsStep_moves_first(bs, cfg, zoom) ==
    LET moved == MoveLoop([k \in 1..Len(bs) |-> reset_forces(bs[k])],
                          1, cfg, zoom)
    IN  ForceLoop(moved.bodies, PairSeq(Len(bs), 1, 2), 1, cfg.G, <<>>)

\* the body of update_physics when the state is not PAUSED
PhysicsStep(bs, cfg, zoom) ==
    ForcesThenMoves(ForceLoop([k \in 1..Len(bs) |-> reset_forces(bs[k])],
                              PairSeq(Len(bs), 1, 2), 1, cfg.G, <<>>),
                    cfg, zoom)

\* moves: the positions of the bodies after each running tick since
\* construction or the last reset; pushes: the running ticks since construction or the last
\* reset, clear_trails or toggle_zoom
NothingTracked == moves = <<>> /\ pushes = 0

\* the operations called in any order, outside run
NotLooping ==
    /\ pc = "called"
    /\ batch = <<>>
    /\ handled = 0
    /\ running = TRUE
    /\ screen = [bodies |-> <<>>, zoomed |-> FALSE, state |-> RUNNING]

Init ==
    /\ config \in Configs
    /\ catalog \in Catalogs
    /\ bodies = _create_solar_system(<<>>)
    /\ zoomed = FALSE
    /\ state = RUNNING
    /\ error = "none"
    /\ ticks = 0
    /\ last = [op |-> "__init__", calls |-> <<>>,
               pre |-> [bodies |-> <<>>, zoomed |-> FALSE, state |-> RUNNING]]
    /\ NothingTracked
    /\ NotLooping

\* clear_trails that clears the trail of the first body only
clear_trails_first_only ==
    /\ error = "none"
    /\ bodies' = [k \in 1..Len(bodies) |->
                     IF k = 1 THEN clear_trail(bodies[k]) ELSE bodies[k]]
    /\ last' = [op |-> "clear_trails", calls |-> <<>>, pre |-> Snapshot]
    /\ UNCHANGED <<config, catalog, zoomed, state, error, ticks>>

clear_trails ==
    /\ error = "none"
    /\ bodies' = [k \in 1..Len(bodies) |-> clear_trail(bodies[k])]
    /\ last' = [op |-> "clear_trails", calls |-> <<>>, pre |-> Snapshot]
    /\ UNCHANGED <<config, catalog, zoomed, state, error, ticks>>

\* toggle_zoom without the call of clear_trails
toggle_zoom_keep_trails ==
    /\ error = "none"
    /\ zoomed' = ~zoomed
    /\ last' = [op |-> "toggle_zoom", calls |-> <<>>, pre |-> Snapshot]
    /\ UNCHANGED <<config, catalog, bodies, state, error, ticks>>

toggle_zoom ==
    /\ error = "none"
    /\ zoomed' = ~zoomed
    /\ bodies' = [k \in 1..Len(bodies) |-> clear_trail(bodies[k])]
    /\ last' = [op |-> "toggle_zoom", calls |-> <<>>, pre |-> Snapshot]
    /\ UNCHANGED <<config, catalog, state, error, ticks>>

\* toggle_pause that only ever pauses
toggle_pause_only_pause ==
    /\ error = "none"
    /\ state' = PAUSED
    /\ last' = [op |-> "toggle_pause", calls |-> <<>>, pre |-> Snapshot]
    /\ UNCHANGED <<config, catalog, bodies, zoomed, error, ticks>>

toggle_pause ==
    /\ error = "none"
    /\ state' = IF state = RUNNING THEN PAUSED ELSE RUNNING
    /\ last' = [op |-> "toggle_pause", calls |-> <<>>, pre |-> Snapshot]
    /\ UNCHANGED <<config, catalog, bodies, zoomed, error, ticks>>

\* reset_simulation without bodies.clear(): the catalog is appended
reset_simulation_no_clear ==
    /\ error = "none"
    /\ bodies' = _create_solar_system(bodies)
    /\ zoomed' = FALSE
    /\ state' = RUNNING
    /\ ticks' = 0
    /\ last' = [op |-> "reset_simulation", calls |-> <<>>, pre |-> Snapshot]
    /\ UNCHANGED <<config, catalog, error>>

reset_simulation ==
    /\ error = "none"
    /\ bodies' = _create_solar_system(<<>>)
    /\ zoomed' = FALSE
    /\ state' = RUNNING
    /\ ticks' = 0
    /\ last' = [op |-> "reset_simulation", calls |-> <<>>, pre |-> Snapshot]
    /\ UNCHANGED <<config, catalog, error>>

\* a tick that is not skipped: step is the result of PhysicsStep
RunningTick(step) ==
    /\ ticks < MaxTicks
    /\ ticks' = ticks + 1
    /\ bodies' = step.bodies
    /\ error' = IF step.raised THEN "ZeroDivisionError" ELSE "none"
    /\ last' = [op |-> "update_physics", calls |-> step.calls,
                pre |-> Snapshot]

\* update_physics without the early return of the PAUSED state
update_physics_ignore_pause ==
    /\ error = "none"
    /\ RunningTick(PhysicsStep(bodies, config, zoomed))
    /\ UNCHANGED <<config, catalog, zoomed, state>>

update_physics ==
    /\ error = "none"
    /\ IF state = PAUSED
       THEN /\ last' = [op |-> "update_physics", calls |-> <<>>,
                        pre |-> Snapshot]
            /\ UNCHANGED <<bodies, error, ticks>>
       ELSE RunningTick(PhysicsStep(bodies, config, zoomed))
    /\ UNCHANGED <<config, catalog, zoomed, state>>

Positions(bs) == [k \in 1..Len(bs) |-> [x |-> bs[k].x, y |-> bs[k].y]]

\* the history variables moves and pushes across the operation op
Track(op) ==
    /\ moves' = IF op = "reset_simulation" THEN <<>>
                ELSE IF op = "update_physics" /\ state = RUNNING
                THEN Append(moves, Positions(bodies'))
                ELSE moves
    /\ pushes' = IF op \in {"reset_simulation", "clear_trails", "toggle_zoom"}
                 THEN 0
                 ELSE IF op = "update_physics" /\ state = RUNNING
                 THEN pushes + 1
                 ELSE pushes

Next ==
    \/ update_physics /\ Track("update_physics") /\ UNCHANGED loop
    \/ toggle_pause /\ Track("toggle_pause") /\ UNCHANGED loop
    \/ toggle_zoom /\ Track("toggle_zoom") /\ UNCHANGED loop
    \/ reset_simulation /\ Track("reset_simulation") /\ UNCHANGED loop
    \/ clear_trails /\ Track("clear_trails") /\ UNCHANGED loop

Spec == Init /\ [][Next]_vars

(***************************************************************************)
(* Properties                                                              *)
(***************************************************************************)
Indices == 1..Len(bodies)

Ticked == last.op = "update_physics" /\ last.pre.state = RUNNING

\* C1: between operations every body's trail holds at most TRAIL_LENGTH
\* points, for every TRAIL_LENGTH >= 0.
TrailBound ==
    \A k \in Indices : Len(bodies[k].trail) <= config.TRAIL_LENGTH

\* a running tick pushed onto full trails of a positive TRAIL_LENGTH
TrailBoundWitness ==
    /\ Ticked
    /\ config.TRAIL_LENGTH > 0
    /\ \A k \in Indices :
          /\ Len(last.pre.bodies[k].trail) = config.TRAIL_LENGTH
          /\ Len(bodies[k].trail) = config.TRAIL_LENGTH

\* C2 as stated: a running tick on a trail of TRAIL_LENGTH points leaves
\* the old trail without its first point followed by the new point, and on
\* a shorter trail the old trail followed by the new point.
TrailFifoAsStated ==
    Ticked =>
        \A k \in Indices :
            LET old == last.pre.bodies[k].trail
                point == ScreenPoint(bodies[k], config, zoomed)
            IN  bodies[k].trail =
                    IF Len(old) = config.TRAIL_LENGTH
                    THEN SubSeq(old, 2, Len(old)) \o <<point>>
                    ELSE old \o <<point>>

\* C2 amended: the new point is appended and, when that makes the trail
\* longer than TRAIL_LENGTH, the first point of the appended trail is
\* removed: for TRAIL_LENGTH >= 1 that is the oldest point of the old
\* trail, for TRAIL_LENGTH = 0 it is the new point itself and the trail
\* stays empty; the order of the surviving points is unchanged.
TrailFifo ==
    Ticked =>
        \A k \in Indices :
            LET old == last.pre.bodies[k].trail
                point == ScreenPoint(bodies[k], config, zoomed)
            IN  bodies[k].trail =
                    IF Len(old) < config.TRAIL_LENGTH THEN old \o <<point>>
                    ELSE IF config.TRAIL_LENGTH = 0 THEN <<>>
                    ELSE SubSeq(old, 2, Len(old)) \o <<point>>

\* a running tick evicted the oldest of two different points
TrailFifoWitness ==
    /\ Ticked
    /\ config.TRAIL_LENGTH = 2
    /\ \E k \in Indices :
          LET old == last.pre.bodies[k].trail
          IN  /\ Len(old) = 2
              /\ old[1] # old[2]
              /\ bodies[k].trail[1] = old[2]
              /\ bodies[k].trail[2] # old[2]

\* C3: a tick in the Paused state changes no body (position, velocity,
\* accumulated force, trail), nor the zoom flag, nor the run state.
PausedTickNoChange ==
    (last.op = "update_physics" /\ last.pre.state = PAUSED) =>
        /\ bodies = last.pre.bodies
        /\ zoomed = last.pre.zoomed
        /\ state = last.pre.state

\* a paused tick on bodies that have moved and have trails and forces
PausedTickWitness ==
    /\ last.op = "update_physics"
    /\ last.pre.state = PAUSED
    /\ ticks >= 2
    /\ \E k \in Indices :
          /\ bodies[k].trail # <<>>
          /\ bodies[k].force_x # 0
          /\ bodies[k].vx # 0

\* C4: reset_simulation yields the state of construction: one body per
\* catalog row with the catalog's position and velocity, no accumulated
\* force, an empty trail; zoom off; Running.
ResetRestoresCatalog ==
    last.op = "reset_simulation" =>
        /\ Len(bodies) = Len(catalog)
        /\ \A k \in Indices :
              /\ bodies[k].x = catalog[k].distance
              /\ bodies[k].y = 0
              /\ bodies[k].vx = 0
              /\ bodies[k].vy = catalog[k].velocity
              /\ bodies[k].mass = catalog[k].mass
              /\ bodies[k].radius = catalog[k].radius
              /\ bodies[k].color = catalog[k].color
              /\ bodies[k].name = catalog[k].name
              /\ bodies[k].force_x = 0
              /\ bodies[k].force_y = 0
              /\ bodies[k].trail = <<>>
        /\ zoomed = FALSE
        /\ state = RUNNING

\* a reset of a paused, zoomed simulation whose bodies had moved
ResetWitness ==
    /\ last.op = "reset_simulation"
    /\ last.pre.state = PAUSED
    /\ last.pre.zoomed
    /\ \E k \in 1..Len(last.pre.bodies) :
          /\ last.pre.bodies[k].x # catalog[k].distance
          /\ last.pre.bodies[k].trail # <<>>

\* C5: right after toggle_zoom the zoom flag is negated and every trail is
\* empty, in either direction and in either run state.
ZoomClearsTrails ==
    last.op = "toggle_zoom" =>
        /\ zoomed = ~last.pre.zoomed
        /\ \A k \in Indices : bodies[k].trail = <<>>

\* zooming back out while paused, with trails that held points
ZoomWitness ==
    /\ last.op = "toggle_zoom"
    /\ last.pre.zoomed
    /\ last.pre.state = PAUSED
    /\ \A k \in 1..Len(last.pre.bodies) : last.pre.bodies[k].trail # <<>>

\* C8: the run state is Running after construction, toggle_pause flips it
\* and changes nothing else, and update_physics, toggle_zoom and
\* clear_trails never change it.
RunStateTransitions ==
    /\ state \in {RUNNING, PAUSED}
    /\ last.op = "__init__" => state = RUNNING
    /\ last.op = "toggle_pause" =>
          /\ state # last.pre.state
          /\ bodies = last.pre.bodies
          /\ zoomed = last.pre.zoomed
    /\ last.op \in {"update_physics", "toggle_zoom", "clear_trails"} =>
          state = last.pre.state

\* a toggle_pause that resumed a paused simulation
ResumeWitness ==
    /\ last.op = "toggle_pause"
    /\ last.pre.state = PAUSED
    /\ state = RUNNING
    /\ ticks > 0

\* C9: clear_trails empties every trail and leaves every body's position,
\* velocity and mass, the zoom flag and the run state unchanged.
ClearTrailsFrame ==
    last.op = "clear_trails" =>
        /\ Len(bodies) = Len(last.pre.bodies)
        /\ \A k \in Indices :
              /\ bodies[k].trail = <<>>
              /\ bodies[k].x = last.pre.bodies[k].x
              /\ bodies[k].y = last.pre.bodies[k].y
              /\ bodies[k].vx = last.pre.bodies[k].vx
              /\ bodies[k].vy = last.pre.bodies[k].vy
              /\ bodies[k].mass = last.pre.bodies[k].mass
        /\ zoomed = last.pre.zoomed
        /\ state = last.pre.state

\* clear_trails on moving bodies with non-empty trails
ClearTrailsWitness ==
    /\ last.op = "clear_trails"
    /\ \A k \in 1..Len(last.pre.bodies) :
          last.pre.bodies[k].trail # <<>>
    /\ \E k \in Indices : bodies[k].vx # 0

\* C6: within a running tick, the contribution added to A by
\* add_gravitational_force(A, B) and the one added to B by
\* add_gravitational_force(B, A) are component-wise negations of each
\* other, for every pair of bodies at nonzero distance.
ForcesEqualAndOpposite ==
    Ticked =>
        \A m, n \in 1..Len(last.calls) :
            LET a == last.calls[m]
                b == last.calls[n]
            IN  (a.self = b.other /\ a.other = b.self /\ a.applied) =>
                    /\ b.applied
                    /\ a.fx = -b.fx
                    /\ a.fy = -b.fy

InitAny ==
    /\ config = SimulationConfig(1)
    /\ catalog \in CatalogsAny
    /\ bodies = _create_solar_system(<<>>)
    /\ zoomed = FALSE
    /\ state = RUNNING
    /\ error = "none"
    /\ ticks = 0
    /\ last = [op |-> "__init__", calls |-> <<>>,
               pre |-> [bodies |-> <<>>, zoomed |-> FALSE, state |-> RUNNING]]
    /\ NothingTracked
    /\ NotLooping

\* the simulation on any supplied catalog
SpecAny == InitAny /\ [][Next]_vars

SamePosition(a, b) == a.x = b.x /\ a.y = b.y

\* the sum, in call order, of the contributions to body k of the calls
\* whose two bodies were not at the same position
RECURSIVE OtherPairsForce(_, _, _)
OtherPairsForce(k, m, axis) ==
    IF m = 0 THEN 0
    ELSE LET c == last.calls[m]
             rest == OtherPairsForce(k, m - 1, axis)
         IN  IF c.self = k /\ ~SamePosition(last.pre.bodies[c.self],
                                            last.pre.bodies[c.other])
             THEN FAdd(rest, IF axis = "x" THEN c.fx ELSE c.fy)
             ELSE rest

\* C7: a pair of bodies at identical positions adds nothing to either
\* body's accumulated force and raises no error; the tick completes (every
\* call of the force loop is made, every body gets its trail point) and the
\* accumulated forces are the sums of the other pairs' contributions.
ZeroDistanceSkipped ==
    Ticked =>
        /\ error = "none"
        /\ Len(last.calls) = Len(bodies) * (Len(bodies) - 1)
        /\ \A m \in 1..Len(last.calls) :
              LET c == last.calls[m]
              IN  SamePosition(last.pre.bodies[c.self],
                               last.pre.bodies[c.other])
                      => (~c.applied /\ c.fx = 0 /\ c.fy = 0)
        /\ \A k \in Indices :
              /\ bodies[k].force_x = OtherPairsForce(k, Len(last.calls), "x")
              /\ bodies[k].force_y = OtherPairsForce(k, Len(last.calls), "y")
              /\ bodies[k].trail = <<ScreenPoint(bodies[k], config, zoomed)>>

\* a running tick with two bodies at one position and a third elsewhere,
\* whose pull on both was applied
ZeroDistanceWitness ==
    /\ Ticked
    /\ error = "none"
    /\ \E i, j, k \in Indices :
          /\ i < j
          /\ SamePosition(last.pre.bodies[i], last.pre.bodies[j])
          /\ ~SamePosition(last.pre.bodies[i], last.pre.bodies[k])
          /\ bodies[i].force_x # 0
          /\ bodies[j].force_x # 0
          /\ last.pre.bodies[i].y # 0

InitUnchecked ==
    /\ config \in ConfigsUnchecked
    /\ catalog \in CatalogsUnchecked
    /\ bodies = _create_solar_system(<<>>)
    /\ zoomed = FALSE
    /\ state = RUNNING
    /\ error = "none"
    /\ ticks = 0
    /\ last = [op |-> "__init__", calls |-> <<>>,
               pre |-> [bodies |-> <<>>, zoomed |-> FALSE, state |-> RUNNING]]
    /\ NothingTracked
    /\ NotLooping

\* the simulation constructed from any configuration and catalog
SpecUnchecked == InitUnchecked /\ [][Next]_vars

ValidConfiguration ==
    /\ config.G > 0
    /\ config.SCALE > 0
    /\ config.ZOOM_SCALE > 0
    /\ config.DT > 0
    /\ \A k \in 1..Len(catalog) : catalog[k].mass > 0

\* C10: construction with a non-positive G, scale, dt or mass fails, so a
\* tick only ever runs under a valid configuration with positive masses,
\* and never divides by a zero mass.
InvalidConfigurationRejected ==
    Ticked =>
        /\ ValidConfiguration
        /\ \A k \in 1..Len(last.pre.bodies) : last.pre.bodies[k].mass > 0
        /\ error = "none"

(***************************************************************************)
(* Projection, integration and the order of a tick                         *)
(***************************************************************************)
CurrentScale == IF zoomed THEN config.ZOOM_SCALE ELSE config.SCALE

\* the point the last running tick pushed for body k (TRAIL_LENGTH >= 1)
PushedPoint(k) == bodies[k].trail[Len(bodies[k].trail)]

\* round() of a float: the nearest integer, ties to even
RoundToInt(a) == Sgn(a) * RoundNearest(Abs(a) \div One, Abs(a) % One, One)

\* n is the float v with its fraction cut off (toward zero)
IsTruncationOf(n, v) ==
    IF v >= 0 THEN n * One <= v /\ v < (n + 1) * One
    ELSE (n - 1) * One < v /\ v <= n * One

\* C11 as stated: the pushed screen coordinate is, per axis,
\* round(position * scale) + viewport_dimension / 2 (twice the coordinate
\* is compared, so that half an odd dimension is exact).
ProjectionAsStated ==
    (Ticked /\ config.TRAIL_LENGTH >= 1) =>
        \A k \in Indices :
            /\ 2 * PushedPoint(k)[1] =
                   2 * RoundToInt(FMul(bodies[k].x, CurrentScale))
                       + config.WIDTH
            /\ 2 * PushedPoint(k)[2] =
                   2 * RoundToInt(FMul(bodies[k].y, CurrentScale))
                       + config.HEIGHT

\* C11 amended: the pushed screen coordinate is, per axis,
\* int(position * scale + viewport_dimension // 2): the float sum of the
\* scaled position and the floor-divided half dimension, truncated toward
\* zero and not rounded.
ProjectionTruncates ==
    (Ticked /\ config.TRAIL_LENGTH >= 1) =>
        \A k \in Indices :
            /\ IsTruncationOf(PushedPoint(k)[1],
                              FAdd(FMul(bodies[k].x, CurrentScale),
                                   (config.WIDTH \div 2) * One))
            /\ IsTruncationOf(PushedPoint(k)[2],
                              FAdd(FMul(bodies[k].y, CurrentScale),
                                   (config.HEIGHT \div 2) * One))

\* a pushed point whose float sum is negative and has a fraction (cut off
\* toward zero, where rounding and flooring give another pixel)
ProjectionWitness ==
    /\ Ticked
    /\ config.TRAIL_LENGTH >= 1
    /\ \E k \in Indices :
          LET sum == FAdd(FMul(bodies[k].x, CurrentScale),
                          (config.WIDTH \div 2) * One)
          IN  sum < 0 /\ 2 * (sum % One) >= One

\* body k was integrated once from its state before the tick: the velocity
\* gained (force / mass) * dt, the position then the new velocity * dt
IntegratedOnce(k) ==
    LET old == last.pre.bodies[k]
        new == bodies[k]
    IN  /\ new.vx = FAdd(old.vx, FMul(FDiv(new.force_x, new.mass), config.DT))
        /\ new.vy = FAdd(old.vy, FMul(FDiv(new.force_y, new.mass), config.DT))
        /\ new.x = FAdd(old.x, FMul(new.vx, config.DT))
        /\ new.y = FAdd(old.y, FMul(new.vy, config.DT))

\* C13: in a running tick every force contribution is computed from the
\* positions the bodies had at the start of the tick (no body has moved
\* before all pairs are accumulated), and every body is integrated once.
AccumulateBeforeIntegrate ==
    Ticked =>
        /\ \A m \in 1..Len(last.calls) :
              LET c == last.calls[m]
                  r == add_gravitational_force(last.pre.bodies[c.self],
                                               last.pre.bodies[c.other],
                                               config.G)
              IN  c.applied = r.applied /\ c.fx = r.fx /\ c.fy = r.fy
        /\ \A k \in Indices : IntegratedOnce(k)

\* a running tick in which a contribution computed after the move of the
\* bodies would have been another one
AccumulateWitness ==
    /\ Ticked
    /\ \E m \in 1..Len(last.calls) :
          LET c == last.calls[m]
              r == add_gravitational_force(bodies[c.self], bodies[c.other],
                                           config.G)
          IN  c.fx # r.fx /\ c.fy # r.fy

\* the sum, in call order and from 0, of the tick's contributions to body k
RECURSIVE TickForce(_, _, _)
TickForce(k, m, axis) ==
    IF m = 0 THEN 0
    ELSE IF last.calls[m].self = k
    THEN FAdd(TickForce(k, m - 1, axis),
              IF axis = "x" THEN last.calls[m].fx ELSE last.calls[m].fy)
    ELSE TickForce(k, m - 1, axis)

\* C15: a running tick resets every accumulated force to (0,0) before its
\* contributions are added: the force a body is integrated with is the sum
\* of that tick's contributions only, with nothing left of earlier ticks.
ForceResetEachTick ==
    Ticked =>
        \A k \in Indices :
            /\ bodies[k].force_x = TickForce(k, Len(last.calls), "x")
            /\ bodies[k].force_y = TickForce(k, Len(last.calls), "y")
            /\ bodies[k].vx =
                   FAdd(last.pre.bodies[k].vx,
                        FMul(FDiv(TickForce(k, Len(last.calls), "x"),
                                  bodies[k].mass), config.DT))

\* a running tick on bodies that carried the forces of an earlier tick
ForceResetWitness ==
    /\ Ticked
    /\ ticks >= 2
    /\ \A k \in Indices :
          /\ last.pre.bodies[k].force_x # 0
          /\ last.pre.bodies[k].force_y # 0
          /\ bodies[k].force_x # last.pre.bodies[k].force_x

\* C16: update_position is semi-implicit Euler on both axes:
\* v' = v + (force / mass) * dt and x' = x + v' * dt, with the velocity
\* after its update.
SemiImplicitEuler ==
    Ticked => \A k \in Indices : IntegratedOnce(k)

\* a running tick after which the position differs from x + v * dt
SemiImplicitWitness ==
    /\ Ticked
    /\ \E k \in Indices :
          /\ bodies[k].x # FAdd(last.pre.bodies[k].x,
                                FMul(last.pre.bodies[k].vx, config.DT))
          /\ bodies[k].y # FAdd(last.pre.bodies[k].y,
                                FMul(last.pre.bodies[k].vy, config.DT))

\* C17: a running tick pushes one point onto every trail, the projection
\* of the body's position after the tick's integration under the zoom flag
\* of the tick (with TRAIL_LENGTH = 0 the point is removed at once).
TrailPointAfterIntegration ==
    Ticked =>
        /\ zoomed = last.pre.zoomed
        /\ \A k \in Indices :
              LET old == last.pre.bodies[k].trail
                  new == bodies[k].trail
              IN  IF config.TRAIL_LENGTH = 0 THEN new = <<>>
                  ELSE /\ new[Len(new)] = ScreenPoint(bodies[k], config,
                                                      last.pre.zoomed)
                       /\ Len(new) = IF Len(old) < config.TRAIL_LENGTH
                                     THEN Len(old) + 1
                                     ELSE config.TRAIL_LENGTH
                       /\ \A n \in 1..(Len(new) - 1) :
                             new[n] = old[Len(old) - Len(new) + 1 + n]

\* a zoomed running tick whose point differs from the projection of the
\* position before the tick and from the projection under the other scale
TrailPointWitness ==
    /\ Ticked
    /\ zoomed
    /\ config.TRAIL_LENGTH >= 1
    /\ \E k \in Indices :
          /\ PushedPoint(k) # ScreenPoint(last.pre.bodies[k], config, zoomed)
          /\ PushedPoint(k) # ScreenPoint(bodies[k], config, ~zoomed)

(***************************************************************************)
(* Catalogs of 0 to 3 bodies and two bodies on the x axis                  *)
(***************************************************************************)
\* a heavy body at the origin and a lighter one at distance d on either
\* side of it
CatalogsTwo ==
    { << Planet(0, 0, M, 8, "yellow", "Sun"),
         Planet(d, v, m, 2, "grey", "Mercury") >> :
        M \in {192 * One, 232 * One}, m \in {8 * One, 12 * One},
        d \in {0 - 4 * One, One, 4 * One}, v \in {0, 2 * One} }

CatalogsSized ==
    {SubSeq(planet_data, 1, n) : n \in 0..Len(planet_data)} \cup CatalogsTwo

InitSized ==
    /\ config = SimulationConfig(1)
    /\ catalog \in CatalogsSized
    /\ bodies = _create_solar_system(<<>>)
    /\ zoomed = FALSE
    /\ state = RUNNING
    /\ error = "none"
    /\ ticks = 0
    /\ last = [op |-> "__init__", calls |-> <<>>,
               pre |-> [bodies |-> <<>>, zoomed |-> FALSE, state |-> RUNNING]]
    /\ NothingTracked
    /\ NotLooping

\* the simulation on catalogs of every size from 0 to 3
SpecSized == InitSized /\ [][Next]_vars

\* the calls of the tick made on body i with body j
CallsOf(i, j) ==
    {m \in 1..Len(last.calls) :
        last.calls[m].self = i /\ last.calls[m].other = j}

\* C14: a running tick over n bodies handles every unordered pair {i, j},
\* i # j, once (one call on i with j followed by one call on j with i) and
\* never a body with itself: every body gets one contribution from each of
\* the n - 1 others (an empty one where the distance is 0), and no call is
\* made when n <= 1.
EachPairOnce ==
    Ticked =>
        /\ Len(last.calls) = Len(bodies) * (Len(bodies) - 1)
        /\ \A m \in 1..Len(last.calls) :
              last.calls[m].self # last.calls[m].other
        /\ \A i \in Indices : \A j \in Indices :
              Cardinality(CallsOf(i, j)) = IF i = j THEN 0 ELSE 1
        /\ \A p \in 1..(Len(last.calls) \div 2) :
              /\ last.calls[2 * p - 1].self < last.calls[2 * p - 1].other
              /\ last.calls[2 * p].self = last.calls[2 * p - 1].other
              /\ last.calls[2 * p].other = last.calls[2 * p - 1].self
        /\ \A k \in Indices :
              /\ bodies[k].force_x = TickForce(k, Len(last.calls), "x")
              /\ bodies[k].force_y = TickForce(k, Len(last.calls), "y")

\* a running tick over three bodies, with its six calls
EachPairOnceWitness ==
    /\ Ticked
    /\ Len(bodies) = 3
    /\ Len(last.calls) = 6
    /\ \A m \in 1..6 : last.calls[m].applied
    /\ \A k \in Indices : bodies[k].force_x # 0

\* a running tick over one body: no call is made
SingleBodyWitness ==
    /\ Ticked
    /\ Len(bodies) = 1
    /\ last.calls = <<>>

(***************************************************************************)
(* Two bodies on the x axis                                                *)
(***************************************************************************)
\* the tick before this state was a running one over two bodies of equal
\* y and different x, k the lighter one
LighterOnAxis(k) ==
    /\ Ticked
    /\ Len(bodies) = 2
    /\ k \in Indices
    /\ last.pre.bodies[k].mass < last.pre.bodies[3 - k].mass
    /\ last.pre.bodies[1].y = last.pre.bodies[2].y
    /\ last.pre.bodies[1].x # last.pre.bodies[2].x

\* the change of the velocity x-component of body k in the tick
DeltaVx(k) == bodies[k].vx - last.pre.bodies[k].vx

\* the signed distance from body k to the other body before the tick
Toward(k) == last.pre.bodies[3 - k].x - last.pre.bodies[k].x

\* G * M_heavy * dt, the numerator of (G * M_heavy / d^2) * dt
Pull(k) == config.G * last.pre.bodies[3 - k].mass * config.DT

\* the float results between the positions and the new velocity of body k
AxisChain(k) ==
    LET self == last.pre.bodies[k]
        other == last.pre.bodies[3 - k]
        dx == FSub(other.x, self.x)
        distance_squared == FAdd(FMul(dx, dx), 0)
        distance == FSqrt(distance_squared)
        Gm == FMul(config.G, self.mass)
        GmM == FMul(Gm, other.mass)
        force_magnitude == FDiv(GmM, distance_squared)
        along == FMul(force_magnitude, dx)
        force_x == FDiv(along, distance)
        ax == FDiv(force_x, self.mass)
    IN  << dx, distance_squared, distance, Gm, GmM, force_magnitude, along,
           force_x, ax, FMul(ax, config.DT) >>

\* a float result in the range where rounding keeps SigBits significant
\* bits (below it the results lose precision, down to 0)
Normal(v) == Abs(v) >= Pow2(SigBits - 1)

NoUnderflow(k) ==
    /\ last.pre.bodies[k].mass > 0
    /\ \A n \in 1..3 : AxisChain(k)[n] # 0
    /\ \A n \in 1..Len(AxisChain(k)) : Normal(AxisChain(k)[n])

\* vy of both bodies is what it was before the tick
VyUnchanged ==
    \A k \in Indices : bodies[k].vy = last.pre.bodies[k].vy

\* C12 as stated: the lighter body's vx changes by exactly
\* (G * M_heavy / d^2) * dt toward the heavy body, both vy unchanged.
TwoBodyExact ==
    \A k \in 1..2 :
        LighterOnAxis(k) =>
            /\ DeltaVx(k) * Toward(k) * Toward(k) = Sgn(Toward(k)) * Pull(k)
            /\ VyUnchanged

\* C12: for two bodies at distance d > 0 on the x axis, one running tick
\* leaves both bodies' vy exactly unchanged and changes the lighter body's
\* vx toward the heavy body by (G * M_heavy / d^2) * dt up to rounding:
\* where no intermediate result underflows, the 13 rounded operations
\* between the positions and the velocity compound to a relative error
\* below 2^(4 - SigBits), and the last of them, the sum vx + ax * dt, adds
\* one rounding of the new vx.
TwoBodyWithinRounding ==
    \A k \in 1..2 :
        LighterOnAxis(k) =>
            /\ VyUnchanged
            /\ NoUnderflow(k) =>
                  /\ DeltaVx(k) * Toward(k) >= 0
                  /\ Abs(DeltaVx(k) * Toward(k) * Toward(k)
                         - Sgn(Toward(k)) * Pull(k)) * Pow2(SigBits)
                       <= Pow2(4) * Pull(k)
                          + Abs(bodies[k].vx) * Toward(k) * Toward(k)

\* a tick of two bodies on the x axis in which the lighter one, moving
\* along y, gained a velocity other than (G * M_heavy / d^2) * dt
TwoBodyWitness ==
    \E k \in 1..2 :
        /\ LighterOnAxis(k)
        /\ NoUnderflow(k)
        /\ bodies[k].vy # 0
        /\ DeltaVx(k) * Toward(k) > 0
        /\ DeltaVx(k) * Toward(k) * Toward(k) # Sgn(Toward(k)) * Pull(k)

(***************************************************************************)
(* Invariants of the trails and of the body collection                     *)
(***************************************************************************)
\* the position body k had after the running tick that pushed the n-th
\* point of its trail
PositionOfPoint(k, n) == moves[Len(moves) - Len(bodies[k].trail) + n][k]

\* C19: in every reachable state every point of every trail is the
\* projection, under the scale of the current zoom flag, of the position
\* the body had after the tick that pushed it: no trail holds a point of
\* the other projection.
TrailsInCurrentProjection ==
    \A k \in Indices :
        /\ Len(bodies[k].trail) <= Len(moves)
        /\ \A n \in 1..Len(bodies[k].trail) :
              bodies[k].trail[n] =
                  ScreenPoint(PositionOfPoint(k, n), config, zoomed)

\* zoomed trails of two points after a toggle_zoom, all of whose points
\* would be other ones under the normal scale
ZoomedTrailsWitness ==
    /\ zoomed
    /\ \E k \in Indices :
          /\ Len(bodies[k].trail) = 2
          /\ Len(moves) > 2
          /\ \A n \in 1..2 :
                bodies[k].trail[n] #
                    ScreenPoint(PositionOfPoint(k, n), config, FALSE)

Min(a, b) == IF a <= b THEN a ELSE b

\* C20: in every reachable state all trails have the same length, the
\* smaller of TRAIL_LENGTH and the number of running ticks since the last
\* construction, reset, clear_trails or toggle_zoom, and the bodies are the
\* catalog's bodies in catalog order.
TrailLengthsAndBodies ==
    /\ \A k \in Indices :
          Len(bodies[k].trail) = Min(config.TRAIL_LENGTH, pushes)
    /\ Len(bodies) = Len(catalog)
    /\ \A k \in Indices :
          /\ bodies[k].name = catalog[k].name
          /\ bodies[k].mass = catalog[k].mass
          /\ bodies[k].radius = catalog[k].radius
          /\ bodies[k].color = catalog[k].color

\* full trails after more running ticks than TRAIL_LENGTH since a
\* clear_trails or toggle_zoom that followed earlier ticks
FullTrailsWitness ==
    /\ last.op = "update_physics"
    /\ config.TRAIL_LENGTH = MaxTrail
    /\ pushes > config.TRAIL_LENGTH
    /\ Len(moves) > pushes
    /\ \A k \in Indices : Len(bodies[k].trail) = config.TRAIL_LENGTH

(***************************************************************************)
(* run: the main loop                                                      *)
(***************************************************************************)
\* the events handle_events tells apart: QUIT, KEYDOWN of z, space, r and
\* c, and any other event
Events == {"quit", "z", "space", "r", "c", "other"}

RECURSIVE Batches(_)
Batches(n) ==
    IF n = 0 THEN {<<>>}
    ELSE Batches(n - 1) \cup
         {Append(b, e) : b \in {c \in Batches(n - 1) : Len(c) = n - 1},
                         e \in Events}

simulation == <<config, catalog, bodies, zoomed, state, error, last, ticks,
                moves, pushes>>

\* run() is entered right after construction; nothing is drawn yet
InitLoop ==
    /\ config = SimulationConfig(1)
    /\ catalog \in Catalogs
    /\ bodies = _create_solar_system(<<>>)
    /\ zoomed = FALSE
    /\ state = RUNNING
    /\ error = "none"
    /\ ticks = 0
    /\ last = [op |-> "__init__", calls |-> <<>>,
               pre |-> [bodies |-> <<>>, zoomed |-> FALSE, state |-> RUNNING]]
    /\ NothingTracked
    /\ pc = "poll"
    /\ batch = <<>>
    /\ handled = 0
    /\ running = TRUE
    /\ screen = [bodies |-> <<>>, zoomed |-> FALSE, state |-> RUNNING]

\* while running: handle_events() is entered and pygame.event.get()
\* returns the pending events
PollEvents ==
    /\ pc = "poll"
    /\ batch' \in Batches(MaxBatch)
    /\ handled' = 0
    /\ pc' = "events"
    /\ UNCHANGED <<running, screen>>
    /\ UNCHANGED simulation

NextEvent(e) ==
    /\ pc = "events"
    /\ handled < Len(batch)
    /\ batch[handled + 1] = e
    /\ handled' = handled + 1

\* if event.type == pygame.QUIT: return False
Quit ==
    /\ NextEvent("quit")
    /\ running' = FALSE
    /\ pc' = "physics"
    /\ UNCHANGED <<batch, screen>>
    /\ UNCHANGED simulation

KeyZ ==
    /\ NextEvent("z")
    /\ toggle_zoom
    /\ Track("toggle_zoom")
    /\ UNCHANGED <<pc, batch, running, screen>>

KeySpace ==
    /\ NextEvent("space")
    /\ toggle_pause
    /\ Track("toggle_pause")
    /\ UNCHANGED <<pc, batch, running, screen>>

KeyR ==
    /\ NextEvent("r")
    /\ reset_simulation
    /\ Track("reset_simulation")
    /\ UNCHANGED <<pc, batch, running, screen>>

KeyC ==
    /\ NextEvent("c")
    /\ clear_trails
    /\ Track("clear_trails")
    /\ UNCHANGED <<pc, batch, running, screen>>

\* an event that is neither QUIT nor one of the four keys
OtherEvent ==
    /\ NextEvent("other")
    /\ UNCHANGED <<pc, batch, running, screen>>
    /\ UNCHANGED simulation

\* the for loop ends: return True
EventsDone ==
    /\ pc = "events"
    /\ handled = Len(batch)
    /\ running' = TRUE
    /\ pc' = "physics"
    /\ UNCHANGED <<batch, handled, screen>>
    /\ UNCHANGED simulation

\* self.update_physics() without the early return of the PAUSED state
Physics_ignore_pause ==
    /\ pc = "physics"
    /\ update_physics_ignore_pause
    /\ Track("update_physics")
    /\ pc' = "draw"
    /\ UNCHANGED <<batch, handled, running, screen>>

\* self.update_physics()
Physics ==
    /\ pc = "physics"
    /\ update_physics
    /\ Track("update_physics")
    /\ pc' = "draw"
    /\ UNCHANGED <<batch, handled, running, screen>>

\* self.draw(); self.clock.tick(FPS); then the test of while running
Draw ==
    /\ pc = "draw"
    /\ screen' = Snapshot
    /\ pc' = IF running THEN "poll" ELSE "done"
    /\ UNCHANGED <<batch, handled, running>>
    /\ UNCHANGED simulation

NextLoop ==
    \/ PollEvents
    \/ Quit
    \/ KeyZ
    \/ KeySpace
    \/ KeyR
    \/ KeyC
    \/ OtherEvent
    \/ EventsDone
    \/ Physics
    \/ Draw

SpecLoop == InitLoop /\ [][NextLoop]_vars

\* the run state after the first n events of the batch, from the state s
RECURSIVE StateAfterEvents(_, _)
StateAfterEvents(s, n) ==
    IF n = 0 THEN s
    ELSE IF batch[n] = "space"
    THEN (IF StateAfterEvents(s, n - 1) = RUNNING THEN PAUSED ELSE RUNNING)
    ELSE IF batch[n] = "r" THEN RUNNING
    ELSE StateAfterEvents(s, n - 1)

\* the n-th event of the batch is a pause command: space in the RUNNING
\* state (screen.state is the state the iteration began with)
PauseCommand(n) ==
    batch[n] = "space" /\ StateAfterEvents(screen.state, n - 1) = RUNNING

\* the last operation was one update_physics, run to its end or skipped
\* as a whole, and nothing was applied since
CompleteTick ==
    /\ last.op = "update_physics"
    /\ state = last.pre.state
    /\ zoomed = last.pre.zoomed
    /\ bodies = IF last.pre.state = PAUSED THEN last.pre.bodies
                ELSE PhysicsStep(last.pre.bodies, config, zoomed).bodies

\* no command between the tick and the drawing, and the screen shows the
\* state a complete tick left
TickThenDraw ==
    /\ pc = "draw" => CompleteTick
    /\ (pc \in {"poll", "done"} /\ last.op # "__init__") =>
           CompleteTick /\ screen = Snapshot
    /\ pc = "events" => running
    /\ pc = "done" => ~running

\* C18 as stated: every iteration handles all pending commands before its
\* tick, the tick of an iteration that got a pause command is skipped, no
\* command is applied within a tick and the screen shows complete ticks.
LoopAsStated ==
    /\ pc \in {"physics", "draw"} => handled = Len(batch)
    /\ pc = "draw" =>
           ((\E n \in 1..Len(batch) : PauseCommand(n)) =>
                last.pre.state = PAUSED /\ bodies = last.pre.bodies)
    /\ TickThenDraw

\* C18: every iteration handles the pending commands in order up to the
\* first QUIT (the events after a QUIT are dropped, the iteration still
\* ticks and draws, and is the last), then performs one update_physics,
\* skipped as a whole exactly when the state left by the handled commands
\* is PAUSED (a pause command followed by a resume or a reset in the same
\* batch skips nothing), then draws; no command is applied within a tick
\* and the screen shows the state a complete tick left.
LoopOrder ==
    /\ pc \in {"physics", "draw"} =>
           IF running
           THEN /\ handled = Len(batch)
                /\ \A n \in 1..Len(batch) : batch[n] # "quit"
           ELSE /\ handled >= 1
                /\ batch[handled] = "quit"
                /\ \A n \in 1..(handled - 1) : batch[n] # "quit"
    /\ pc = "physics" =>
           state = StateAfterEvents(screen.state,
                                    IF running THEN handled ELSE handled - 1)
    /\ pc = "draw" =>
           last.pre.state =
               StateAfterEvents(screen.state,
                                IF running THEN handled ELSE handled - 1)
    /\ TickThenDraw

\* an iteration that began RUNNING after a tick, got a pause command as
\* its last command and skipped its tick
PauseThenSkipWitness ==
    /\ pc = "draw"
    /\ ticks >= 1
    /\ screen.state = RUNNING
    /\ Len(batch) = MaxBatch
    /\ handled = Len(batch)
    /\ PauseCommand(handled)
    /\ last.pre.state = PAUSED
    /\ bodies = last.pre.bodies
    /\ bodies = screen.bodies

\* a QUIT followed by a pending pause command: the command is dropped and
\* the tick of the iteration runs
QuitDropsWitness ==
    /\ pc = "draw"
    /\ ~running
    /\ handled < Len(batch)
    /\ batch[Len(batch)] = "space"
    /\ last.pre.state = RUNNING
    /\ bodies # last.pre.bodies

====
